---------------------------- MODULE Spec2Model ----------------------------
(***************************************************************************)
(* Model of .github/scripts/ai_review.py: the AI code review step of a     *)
(* pull-request workflow.  One run of the script is main(): collect the    *)
(* changed *.py files and their diff with two `git diff` subprocesses,     *)
(* build a prompt, ask the OpenAI-compatible provider, fall back to        *)
(* Gemini, fall back to a fixed hint, write the result to                  *)
(* ai_review_result.txt and append it to $GITHUB_STEP_SUMMARY.             *)
(*                                                                         *)
(* Python strings are TLA+ strings (Len, \o and SubSeq work on them).      *)
(* The module text is ASCII, so the fixed Chinese messages of the script   *)
(* are written in ASCII; the truncation notice keeps its length, one       *)
(* ASCII character for each character of the original.                     *)
(* A value of type `str | None` is <<>> for None and <<s>> for the         *)
(* string s.                                                               *)
(***************************************************************************)
EXTENDS Integers, Sequences, FiniteSets, TLC

VARIABLES
    env,        \* the process environment: OPENAI_API_KEY, GEMINI_API_KEY, GITHUB_STEP_SUMMARY
    artifact,   \* content of ai_review_result.txt
    summary,    \* content of the file $GITHUB_STEP_SUMMARY names
    summary0,   \* content of the summary file when the run started
    pc,         \* position of main()
    files,      \* main's local `files`
    diff,       \* main's local `diff`
    prompt,     \* main's local `prompt` (None until build_prompt has run)
    result,     \* main's local `result` (None until a stage sets it)
    runs,       \* the run_cmd calls that returned, in order, as <<returncode, output>>
    respA,      \* what the OpenAI client did in this run (None: not called)
    respB,      \* what the Gemini client did in this run (None: not called)
    retA,       \* <<v>> once call_openai_compatible returned v
    retB,       \* <<v>> once call_gemini returned v
    requests,   \* HTTP generation requests started, per provider
    written,    \* the arguments write_result was called with, in order
    trace,      \* the stages main() entered, in order
    exc,        \* name of the exception that left main(), "" if none
    exitCode    \* <<c>> once the process has exited with code c

vars == <<env, artifact, summary, summary0, pc, files, diff, prompt, result,
          runs, respA, respB, retA, retB, requests, written, trace, exc, exitCode>>

-----------------------------------------------------------------------------
(* Bounds of the model *)

\* longest text a provider answers with
MaxLen == 2
\* raw diffs have 0, 1 or MAX_DIFF_CHARS - DiffSlack .. MAX_DIFF_CHARS + DiffSlack characters
DiffSlack == 1
\* most parts in a Gemini candidate's content
MaxParts == 2

-----------------------------------------------------------------------------
(* Python values *)

None == <<>>
Some(v) == <<v>>

\* `if x:` for x of type str | None
Truthy(o) == o # None /\ o[1] # ""

\* a call's outcome: it returned val, or the exception named exc left it
Return(v) == [exc |-> "", val |-> <<v>>]
Raise(e) == [exc |-> e, val |-> <<>>]

\* characters str.strip() removes (the ASCII ones)
Whitespace == {" ", "\n", "\t", "\r"}

RECURSIVE LStrip(_)
LStrip(s) ==
    IF s = "" THEN ""
    ELSE IF SubSeq(s, 1, 1) \in Whitespace THEN LStrip(SubSeq(s, 2, Len(s)))
    ELSE s

RECURSIVE RStrip(_)
RStrip(s) ==
    IF s = "" THEN ""
    ELSE IF SubSeq(s, Len(s), Len(s)) \in Whitespace THEN RStrip(SubSeq(s, 1, Len(s) - 1))
    ELSE s

\* str.strip()
Strip(s) == RStrip(LStrip(s))

\* s.split("\n"): the pieces between the newlines, empty ones included
RECURSIVE SplitLines(_, _)
SplitLines(s, cur) ==
    IF s = "" THEN <<cur>>
    ELSE IF SubSeq(s, 1, 1) = "\n" THEN <<cur>> \o SplitLines(SubSeq(s, 2, Len(s)), "")
    ELSE SplitLines(SubSeq(s, 2, Len(s)), cur \o SubSeq(s, 1, 1))

\* "\n".join(parts)
RECURSIVE JoinLines(_)
JoinLines(parts) ==
    IF parts = <<>> THEN ""
    ELSE IF Len(parts) = 1 THEN parts[1]
    ELSE parts[1] \o "\n" \o JoinLines(Tail(parts))

\* s repeated n times
RECURSIVE Rep(_, _)
Rep(s, n) ==
    IF n = 0 THEN ""
    ELSE IF n % 2 = 1 THEN s \o Rep(s, n - 1)
    ELSE LET h == Rep(s, n \div 2) IN h \o h

\* strings over alphabet of length exactly n
RECURSIVE StringsOfLen(_, _)
StringsOfLen(alphabet, n) ==
    IF n = 0 THEN {""}
    ELSE {c \o s : c \in alphabet, s \in StringsOfLen(alphabet, n - 1)}

IsPrefix(p, s) == Len(p) <= Len(s) /\ SubSeq(s, 1, Len(p)) = p

-----------------------------------------------------------------------------
(* Constants of the script *)

MAX_DIFF_CHARS == 15000

\* "\n\n...[diff <7 CJK characters and a comma> 15000 <2 CJK characters>]...": 32 characters
TruncationNotice == "\n\n...[diff cut,over " \o ToString(MAX_DIFF_CHARS) \o " ch]..."

REVIEW_DIMENSIONS == "Review the change along: 1. security 2. bugs 3. performance 4. readability 5. architecture"

NO_CHANGES_MESSAGE == "This PR changes no Python file, AI review skipped."

CONFIG_HINT_MESSAGE == "AI review not run: configure OPENAI_API_KEY (DeepSeek etc.) or GEMINI_API_KEY."

SUMMARY_HEADER == "## AI code review\n\n"

-----------------------------------------------------------------------------
(* The change collector *)

\* run_cmd: subprocess.run either cannot start the command, and raises, or
\* returns; the output is stdout followed by stderr.
run_cmd(o) ==
    IF ~o.launched THEN Raise("FileNotFoundError")
    ELSE Return(<<o.rc, o.stdout \o o.stderr>>)

\* [f.strip() for f in out.strip().split("\n") if f.strip()]
ParseFiles(out) ==
    LET lines == SplitLines(Strip(out), "")
    IN  [i \in 1..Len(SelectSeq(lines, LAMBDA f : Strip(f) # "")) |->
            Strip(SelectSeq(lines, LAMBDA f : Strip(f) # "")[i])]

\* Truncate with the comparison off by one (>= for >)
TruncateAtCap(d) ==
    IF Len(d) >= MAX_DIFF_CHARS
    THEN SubSeq(d, 1, MAX_DIFF_CHARS) \o TruncationNotice
    ELSE d

\* lines 54-55: the cut at MAX_DIFF_CHARS and the notice
Truncate(d) ==
    IF Len(d) > MAX_DIFF_CHARS
    THEN SubSeq(d, 1, MAX_DIFF_CHARS) \o TruncationNotice
    ELSE d

\* get_py_diff, given what the two subprocesses do.  ran: the run_cmd calls
\* that returned.
get_py_diff(o1, o2) ==
    LET r1 == run_cmd(o1) IN
    IF r1.exc # "" THEN [exc |-> r1.exc, val |-> <<>>, ran |-> <<>>]
    ELSE
    LET rc == r1.val[1][1]
        out == r1.val[1][2]
        fs == ParseFiles(out)
    IN
    IF rc # 0 THEN [exc |-> "", val |-> <<<<>>, "">>, ran |-> <<r1.val[1]>>]
    ELSE IF fs = <<>> THEN [exc |-> "", val |-> <<<<>>, "">>, ran |-> <<r1.val[1]>>]
    ELSE
    LET r2 == run_cmd(o2) IN
    IF r2.exc # "" THEN [exc |-> r2.exc, val |-> <<>>, ran |-> <<r1.val[1]>>]
    ELSE
    LET rc2 == r2.val[1][1]
        diff_out == r2.val[1][2]
        d == IF rc2 = 0 THEN diff_out ELSE ""
    IN  [exc |-> "", val |-> <<fs, Truncate(d)>>, ran |-> <<r1.val[1], r2.val[1]>>]

\* build_prompt (the Markdown code fence is written ~~~)
build_prompt(fs, d) ==
    "You are a senior code reviewer. Review the Python changes of this PR.\n\n"
    \o "## Changed files\n"
    \o JoinLines([i \in 1..Len(fs) |-> "- " \o fs[i]])
    \o "\n\n## Diff\n~~~\n" \o d \o "\n~~~\n\n"
    \o REVIEW_DIMENSIONS
    \o "\n\nOutput the review conclusion directly, in Markdown."

-----------------------------------------------------------------------------
(* The provider adapters *)

\* the exceptions of the model that derive from Exception, which is all of
\* them: ImportError, the clients' own errors, AttributeError, TypeError,
\* ValueError, OSError and its subclass FileNotFoundError
ExceptionSubclasses ==
    {"ImportError", "OpenAIError", "APIConnectionError", "ClientError",
     "AttributeError", "TypeError", "ValueError", "OSError", "FileNotFoundError"}

\* ExceptException narrowed to `except ImportError`
ExceptImportError(o) ==
    IF o.exc = "ImportError" THEN Return(None) ELSE o

\* try: ... except Exception: return None
ExceptException(o) ==
    IF o.exc # "" /\ o.exc \in ExceptionSubclasses THEN Return(None) ELSE o

\* OpenAIBody without the .strip() of line 123
OpenAIBodyNoStrip(b) ==
    CASE b.kind = "import_error" -> Raise("ImportError")
      [] b.kind = "client_error" -> Raise("OpenAIError")
      [] b.kind = "request_error" -> Raise("APIConnectionError")
      [] b.kind = "malformed" -> Raise("AttributeError")
      [] b.kind = "no_choices" -> Return(None)
      [] b.kind = "no_content" -> Raise("AttributeError")
      [] b.kind = "text" -> Return(Some(b.text))

\* lines 114-124, the body of call_openai_compatible's try, given what the
\* openai package and the server do
OpenAIBody(b) ==
    CASE b.kind = "import_error" -> Raise("ImportError")
      [] b.kind = "client_error" -> Raise("OpenAIError")
      [] b.kind = "request_error" -> Raise("APIConnectionError")
      [] b.kind = "malformed" -> Raise("AttributeError")
      [] b.kind = "no_choices" -> Return(None)
      [] b.kind = "no_content" -> Raise("AttributeError")
      [] b.kind = "text" -> Return(Some(Strip(b.text)))

call_openai_compatible(api_key, b) ==
    IF ~Truthy(api_key) THEN Return(None)
    ELSE ExceptException(OpenAIBody(b))

\* lines 98-100: the first part with a non-empty text, stripped
RECURSIVE FirstPartText(_)
FirstPartText(parts) ==
    IF parts = <<>> THEN Return(None)
    ELSE IF Truthy(Head(parts)) THEN Return(Some(Strip(Head(parts)[1])))
    ELSE FirstPartText(Tail(parts))

\* lines 84-101, the body of call_gemini's try
GeminiBody(b) ==
    CASE b.kind = "import_error" -> Raise("ImportError")
      [] b.kind = "client_error" -> Raise("ValueError")
      [] b.kind = "request_error" -> Raise("ClientError")
      [] b.kind = "falsy_response" -> Return(None)
      [] b.kind = "text_error" -> Raise("ValueError")
      [] b.kind = "response" ->
            IF Truthy(b.text) THEN Return(Some(Strip(b.text[1])))
            ELSE IF b.candidates # <<>> /\ b.candidates[1] # None
                 THEN FirstPartText(b.candidates[1][1])
                 ELSE Return(None)

call_gemini(api_key, b) ==
    IF ~Truthy(api_key) THEN Return(None)
    ELSE ExceptException(GeminiBody(b))

\* whether the adapter got as far as sending the generation request
Requested(api_key, b) ==
    Truthy(api_key) /\ b.kind \notin {"import_error", "client_error"}

-----------------------------------------------------------------------------
(* The result writer *)

\* write_result with the summary opened "w" instead of "a"
write_result_truncating(res, art, sum, path, o) ==
    IF o.art = "open_error" THEN [exc |-> "OSError", artifact |-> art, summary |-> sum]
    ELSE IF o.art = "write_error" THEN [exc |-> "OSError", artifact |-> "", summary |-> sum]
    ELSE IF ~Truthy(path) THEN [exc |-> "", artifact |-> res, summary |-> sum]
    ELSE IF o.sum = "open_error" THEN [exc |-> "OSError", artifact |-> res, summary |-> sum]
    ELSE IF o.sum = "write_error"
         THEN [exc |-> "OSError", artifact |-> res, summary |-> SUMMARY_HEADER]
    ELSE [exc |-> "", artifact |-> res,
          summary |-> SUMMARY_HEADER \o res \o "\n"]

\* write_result, given the files before and how the two writes go.  o.art and
\* o.sum are "ok", "open_error" (open() raises, the file is untouched) or
\* "write_error" (the write raises after open() truncated the artifact, or
\* after the header reached the summary).
write_result(res, art, sum, path, o) ==
    IF o.art = "open_error" THEN [exc |-> "OSError", artifact |-> art, summary |-> sum]
    ELSE IF o.art = "write_error" THEN [exc |-> "OSError", artifact |-> "", summary |-> sum]
    ELSE IF ~Truthy(path) THEN [exc |-> "", artifact |-> res, summary |-> sum]
    ELSE IF o.sum = "open_error" THEN [exc |-> "OSError", artifact |-> res, summary |-> sum]
    ELSE IF o.sum = "write_error"
         THEN [exc |-> "OSError", artifact |-> res, summary |-> sum \o SUMMARY_HEADER]
    ELSE [exc |-> "", artifact |-> res,
          summary |-> sum \o SUMMARY_HEADER \o res \o "\n"]

-----------------------------------------------------------------------------
(* What the environment can do *)

\* an API key or a path: unset, set to the empty string, or set
EnvValues(v) == {None, Some(""), Some(v)}

Texts == UNION {StringsOfLen({"a", " "}, n) : n \in 0..MaxLen}

\* a raw diff of n characters; the digits make every cut of it distinct
RawDiff(n) == SubSeq(Rep("0123456789\n", (n \div 11) + 1), 1, n)

\* diffs far below the cap
ShortDiffTexts == {"", "+x\n"}

\* diffs around the cap
LongDiffTexts ==
    {RawDiff(n) : n \in (MAX_DIFF_CHARS - DiffSlack)..(MAX_DIFF_CHARS + DiffSlack)}

\* the diffs of the runs of Spec: short ones and one over the cap
DiffTexts == ShortDiffTexts \cup {RawDiff(MAX_DIFF_CHARS + 1)}

NameOnlyTexts == {"", "\n", "app.py\n", "app.py\n lib/util.py \n\n"}

\* a git diff that cannot be started, fails, or prints text
RunOutcomes(texts) ==
    {[launched |-> FALSE, rc |-> 0, stdout |-> "", stderr |-> ""],
     [launched |-> TRUE, rc |-> 128, stdout |-> "", stderr |-> "fatal: bad revision\n"]}
    \cup {[launched |-> TRUE, rc |-> 0, stdout |-> t, stderr |-> ""] : t \in texts}

OpenAIBehaviours ==
    {[kind |-> k, text |-> ""] :
        k \in {"import_error", "client_error", "request_error", "malformed",
               "no_choices", "no_content"}}
    \cup {[kind |-> "text", text |-> t] : t \in Texts}

PartTexts == {None, Some(""), Some(" b")}

PartLists == UNION {[1..n -> PartTexts] : n \in 0..MaxParts}

GeminiBehaviours ==
    {[kind |-> k, text |-> None, candidates |-> <<>>] :
        k \in {"import_error", "client_error", "request_error", "falsy_response",
               "text_error"}}
    \cup {[kind |-> "response", text |-> Some(t), candidates |-> <<>>] : t \in Texts \ {""}}
    \cup {[kind |-> "response", text |-> None, candidates |-> c] :
            c \in {<<>>, <<None>>} \cup {<<Some(ps)>> : ps \in PartLists}}
    \cup {[kind |-> "response", text |-> Some(""), candidates |-> c] :
            c \in {<<>>, <<Some(<<Some(" b")>>)>>}}

WriteOutcomes ==
    {[art |-> a, sum |-> "ok"] : a \in {"open_error", "write_error"}}
    \cup {[art |-> "ok", sum |-> b] : b \in {"ok", "open_error", "write_error"}}

-----------------------------------------------------------------------------
(* main() *)

Environments ==
    [OPENAI_API_KEY : EnvValues("sk-test"),
     GEMINI_API_KEY : EnvValues("AIza-test"),
     GITHUB_STEP_SUMMARY : EnvValues("/tmp/step_summary.md")]

\* the state when main() is entered, in one of the environments envs
Start(envs) ==
    /\ env \in envs
    /\ \E old \in {<<"", "">>, <<"old review", "## Build\nok\n">>} :
          /\ artifact = old[1]
          /\ summary = old[2]
          /\ summary0 = old[2]
    /\ pc = "collect"
    /\ files = <<>>
    /\ diff = ""
    /\ prompt = None
    /\ result = None
    /\ runs = <<>>
    /\ respA = None
    /\ respB = None
    /\ retA = None
    /\ retB = None
    /\ requests = [A |-> 0, B |-> 0]
    /\ written = <<>>
    /\ trace = <<>>
    /\ exc = ""
    /\ exitCode = None

Init == Start(Environments)

\* NoFiles with the short-circuit of lines 143-146 left out
NoFilesNever(fs) == FALSE

\* NeedsFallback that asks Gemini whatever the first provider returned
NeedsFallbackAlways(v) == TRUE

\* OrConfigHint with `if not result` for `if result is None`
OrConfigHintIfFalsy(v) == IF ~Truthy(v) THEN Some(CONFIG_HINT_MESSAGE) ELSE v

\* line 143: if not files
NoFiles(fs) == fs = <<>>

\* line 152: if result is None, after call_openai_compatible
NeedsFallback(v) == v = None

\* lines 154-157: the configuration hint in place of None
OrConfigHint(v) == IF v = None THEN Some(CONFIG_HINT_MESSAGE) ELSE v

\* an exception leaves main(): the interpreter prints it and exits with 1
Propagate(e) ==
    /\ pc' = "raised"
    /\ exc' = e
    /\ exitCode' = Some(1)

\* lines 142-144: get_py_diff, and the no-changes message when files is empty
Collect(diffTexts) ==
    /\ pc = "collect"
    /\ \E o1 \in RunOutcomes(NameOnlyTexts), o2 \in RunOutcomes(diffTexts) :
          LET r == get_py_diff(o1, o2) IN
          /\ runs' = r.ran
          /\ trace' = Append(trace, "collect")
          /\ IF r.exc # ""
             THEN /\ Propagate(r.exc)
                  /\ UNCHANGED <<files, diff, result>>
             ELSE /\ files' = r.val[1]
                  /\ diff' = r.val[2]
                  /\ result' = IF NoFiles(r.val[1]) THEN Some(NO_CHANGES_MESSAGE) ELSE None
                  /\ pc' = IF NoFiles(r.val[1]) THEN "write" ELSE "prompt"
                  /\ UNCHANGED <<exc, exitCode>>
    /\ UNCHANGED <<env, artifact, summary, summary0, prompt, respA, respB, retA, retB,
                   requests, written>>

\* line 148
BuildPrompt ==
    /\ pc = "prompt"
    /\ prompt' = Some(build_prompt(files, diff))
    /\ trace' = Append(trace, "prompt")
    /\ pc' = "callA"
    /\ UNCHANGED <<env, artifact, summary, summary0, files, diff, result, runs, respA,
                   respB, retA, retB, requests, written, exc, exitCode>>

\* line 151: main enters call_openai_compatible
CallOpenAI ==
    /\ pc = "callA"
    /\ trace' = Append(trace, "A")
    /\ pc' = "inA"
    /\ UNCHANGED <<env, artifact, summary, summary0, files, diff, prompt, result, runs,
                   respA, respB, retA, retB, requests, written, exc, exitCode>>

\* lines 106-126 and 151-152: the adapter runs and main takes what it returns
ReturnOpenAI ==
    /\ pc = "inA"
    /\ \E b \in OpenAIBehaviours :
          LET r == call_openai_compatible(env.OPENAI_API_KEY, b) IN
          /\ respA' = IF Truthy(env.OPENAI_API_KEY) THEN Some(b) ELSE None
          /\ requests' = IF Requested(env.OPENAI_API_KEY, b)
                         THEN [requests EXCEPT !.A = @ + 1] ELSE requests
          /\ IF r.exc # ""
             THEN /\ Propagate(r.exc)
                  /\ UNCHANGED <<result, retA>>
             ELSE /\ retA' = r.val
                  /\ result' = r.val[1]
                  /\ pc' = IF NeedsFallback(r.val[1]) THEN "callB" ELSE "write"
                  /\ UNCHANGED <<exc, exitCode>>
    /\ UNCHANGED <<env, artifact, summary, summary0, files, diff, prompt, runs, respB,
                   retB, written, trace>>

\* line 153: main enters call_gemini
CallGemini ==
    /\ pc = "callB"
    /\ trace' = Append(trace, "B")
    /\ pc' = "inB"
    /\ UNCHANGED <<env, artifact, summary, summary0, files, diff, prompt, result, runs,
                   respA, respB, retA, retB, requests, written, exc, exitCode>>

\* lines 77-103 and 153-157: the adapter runs, main takes what it returns and
\* puts the configuration hint in place of None
ReturnGemini ==
    /\ pc = "inB"
    /\ \E b \in GeminiBehaviours :
          LET r == call_gemini(env.GEMINI_API_KEY, b) IN
          /\ respB' = IF Truthy(env.GEMINI_API_KEY) THEN Some(b) ELSE None
          /\ requests' = IF Requested(env.GEMINI_API_KEY, b)
                         THEN [requests EXCEPT !.B = @ + 1] ELSE requests
          /\ IF r.exc # ""
             THEN /\ Propagate(r.exc)
                  /\ UNCHANGED <<result, retB>>
             ELSE /\ retB' = r.val
                  /\ result' = OrConfigHint(r.val[1])
                  /\ pc' = "write"
                  /\ UNCHANGED <<exc, exitCode>>
    /\ UNCHANGED <<env, artifact, summary, summary0, files, diff, prompt, runs, respA,
                   retA, written, trace>>

\* lines 145-146 and 159-160, and line 164: write_result, return 0, sys.exit
WriteResult ==
    /\ pc = "write"
    /\ trace' = Append(trace, "write")
    /\ written' = Append(written, result[1])
    /\ \E o \in WriteOutcomes :
          LET w == write_result(result[1], artifact, summary, env.GITHUB_STEP_SUMMARY, o) IN
          /\ artifact' = w.artifact
          /\ summary' = w.summary
          /\ IF w.exc # ""
             THEN Propagate(w.exc)
             ELSE /\ pc' = "done"
                  /\ exitCode' = Some(0)
                  /\ UNCHANGED exc
    /\ UNCHANGED <<env, summary0, files, diff, prompt, result, runs, respA, respB, retA,
                   retB, requests>>

Next ==
    \/ Collect(DiffTexts)
    \/ BuildPrompt
    \/ CallOpenAI
    \/ ReturnOpenAI
    \/ CallGemini
    \/ ReturnGemini
    \/ WriteResult

Spec == Init /\ [][Next]_vars

\* the same run on diffs around MAX_DIFF_CHARS, in the environments that
\* configure no provider
InitDiff ==
    Start({e \in Environments : e.OPENAI_API_KEY = None /\ e.GEMINI_API_KEY = None})

NextDiff ==
    \/ Collect(LongDiffTexts)
    \/ BuildPrompt
    \/ CallOpenAI
    \/ ReturnOpenAI
    \/ CallGemini
    \/ ReturnGemini
    \/ WriteResult

SpecDiff == InitDiff /\ [][NextDiff]_vars

\* the run is over
Terminated == pc \in {"done", "raised"}

-----------------------------------------------------------------------------
(* Properties *)

InTrace(e) == \E i \in 1..Len(trace) : trace[i] = e

\* C1: every run of main() ends with exit code 0 and with no exception
\* leaving it, whatever the subprocesses, the providers and the writes do.
C1_AlwaysExitsZero ==
    Terminated => (exitCode = Some(0) /\ exc = "")

\* C2: the result string main() passes to write_result is never empty.
C2_ResultNonEmpty ==
    \A i \in 1..Len(written) : written[i] # ""

\* C3: the adapters never raise: an adapter that was entered and left has
\* returned None or a string, for every behaviour of its client, the errors
\* all giving None; and with its API key missing or empty it returns None
\* without using the client or sending a request.
C3_AdaptersNeverRaise ==
    /\ pc = "raised" => trace[Len(trace)] \notin {"A", "B"}
    /\ (InTrace("A") /\ pc # "inA") =>
          /\ retA # None
          /\ retA[1] = None \/ (Len(retA[1]) = 1 /\ Len(retA[1][1]) >= 0)
          /\ ~Truthy(env.OPENAI_API_KEY) =>
                (retA = Some(None) /\ respA = None /\ requests.A = 0)
          /\ (respA # None /\ respA[1].kind # "text") => retA = Some(None)
    /\ (InTrace("B") /\ pc # "inB") =>
          /\ retB # None
          /\ retB[1] = None \/ (Len(retB[1]) = 1 /\ Len(retB[1][1]) >= 0)
          /\ ~Truthy(env.GEMINI_API_KEY) =>
                (retB = Some(None) /\ respB = None /\ requests.B = 0)
          /\ (respB # None /\ respB[1].kind # "response") => retB = Some(None)

\* both adapters were configured, both clients failed, both returned None
C3_Witness ==
    /\ pc = "done"
    /\ respA # None /\ respA[1].kind = "no_content" /\ retA = Some(None)
    /\ respB # None /\ respB[1].kind = "request_error" /\ retB = Some(None)

\* the first provider is configured and its response carries a text
ASucceeded == respA # None /\ respA[1].kind = "text" /\ retA # None

\* C4 as stated: with the first provider succeeding, the result is the text
\* the provider returned, character for character, and Gemini is not invoked.
C4_ResponseVerbatim ==
    ASucceeded => (result = Some(respA[1].text) /\ ~InTrace("B"))

\* C4, amended: with the first provider succeeding, the result is the text
\* the provider returned with its leading and trailing whitespace removed,
\* and Gemini is not invoked.
C4_ResponseStripped ==
    ASucceeded =>
        /\ result = Some(Strip(respA[1].text))
        /\ written # <<>> => written = <<Strip(respA[1].text)>>
        /\ ~InTrace("B")
        /\ respB = None /\ retB = None /\ requests.B = 0

C4_Witness ==
    /\ pc = "done"
    /\ ASucceeded
    /\ respA[1].text = " a"
    /\ artifact = "a"

\* C5: with the first provider absent, the result is what call_gemini
\* returned when that is a string (the text of the response, stripped), the
\* configuration hint when Gemini is absent too, and never anything else.
C5_FallbackChain ==
    /\ (retA = Some(None) /\ retB # None) =>
          /\ retB[1] # None => result = retB[1]
          /\ retB[1] = None => result = Some(CONFIG_HINT_MESSAGE)
          /\ (respB # None /\ respB[1].kind = "response" /\ Truthy(respB[1].text)) =>
                result = Some(Strip(respB[1].text[1]))
    /\ (files # <<>> /\ result # None) =>
          \/ retA # None /\ result = retA[1]
          \/ retB # None /\ result = retB[1]
          \/ retA = Some(None) /\ retB = Some(None) /\ result = Some(CONFIG_HINT_MESSAGE)

\* the first provider is configured and fails, Gemini answers in a part
C5_Witness ==
    /\ pc = "done"
    /\ respA # None /\ retA = Some(None)
    /\ retB = Some(Some("b"))
    /\ artifact = "b"

\* C6: when get_py_diff returns no file the result is the no-changes
\* message, no prompt is built, no provider is invoked, and write_result is
\* still called with the message.
C6_NoChangesShortCircuit ==
    (files = <<>> /\ (pc \in {"write", "done"} \/ (pc = "raised" /\ InTrace("write")))) =>
        /\ result = Some(NO_CHANGES_MESSAGE)
        /\ prompt = None
        /\ ~InTrace("prompt") /\ ~InTrace("A") /\ ~InTrace("B")
        /\ retA = None /\ retB = None /\ requests = [A |-> 0, B |-> 0]
        /\ pc # "write" => written = <<NO_CHANGES_MESSAGE>>
        /\ pc = "done" => artifact = NO_CHANGES_MESSAGE

C6_Witness ==
    /\ pc = "done"
    /\ files = <<>>
    /\ runs # <<>> /\ runs[1][1] = 0
    /\ artifact = NO_CHANGES_MESSAGE

\* C7: when either git diff exits non-zero, get_py_diff returns ([], "") and
\* the run is a no-changes run: the no-changes message, no provider invoked.
C7_DiffFailureIsNoChanges ==
    (\E i \in 1..Len(runs) : runs[i][1] # 0) =>
        /\ files = <<>> /\ diff = ""
        /\ result = Some(NO_CHANGES_MESSAGE)
        /\ ~InTrace("A") /\ ~InTrace("B")

\* C8: for the raw diff d of a full diff that exited 0, the stored diff is
\* the first MAX_DIFF_CHARS characters of d followed by the notice when
\* Len(d) > MAX_DIFF_CHARS, of length MAX_DIFF_CHARS + 32 whatever Len(d),
\* and d itself otherwise, the length MAX_DIFF_CHARS included.
C8_Truncation ==
    (Len(runs) = 2 /\ runs[2][1] = 0 /\ pc # "raised") =>
        LET d == runs[2][2] IN
        IF Len(d) > MAX_DIFF_CHARS
        THEN /\ diff = SubSeq(d, 1, MAX_DIFF_CHARS) \o TruncationNotice
             /\ Len(diff) = MAX_DIFF_CHARS + Len(TruncationNotice)
             /\ Len(TruncationNotice) = 32
        ELSE diff = d

\* a diff one character over the cap was cut
C8_Witness ==
    /\ Len(runs) = 2 /\ runs[2][1] = 0
    /\ Len(runs[2][2]) = MAX_DIFF_CHARS + 1
    /\ Len(diff) = MAX_DIFF_CHARS + 32
    /\ prompt # None

\* C9: after a run that completed, the artifact file holds exactly the
\* result, whatever it held before; the summary file always starts with what
\* it held before; with a summary path configured it holds after the run its
\* prior content, the header, the result and a newline, and with none
\* configured it is untouched.
C9_WriterEffect ==
    /\ IsPrefix(summary0, summary)
    /\ ~Truthy(env.GITHUB_STEP_SUMMARY) => summary = summary0
    /\ pc = "done" =>
          /\ artifact = result[1]
          /\ Truthy(env.GITHUB_STEP_SUMMARY) =>
                summary = summary0 \o SUMMARY_HEADER \o result[1] \o "\n"

\* a review replaced an older artifact and was appended to a summary in use
C9_Witness ==
    /\ pc = "done"
    /\ summary0 # ""
    /\ summary = summary0 \o SUMMARY_HEADER \o "a" \o "\n"
    /\ artifact = "a"

StageOrder == <<"collect", "prompt", "A", "B", "write">>

Rank(e) == CHOOSE i \in 1..Len(StageOrder) : StageOrder[i] = e

\* C10: the stages of a run occur in the order collect, prompt, provider A,
\* provider B, write, each at most once; Gemini is invoked only after the
\* first provider returned None, and never while it is running;
\* write_result is called once, with the result, on each path that ends the
\* run: no changes, A answered, B answered or both absent.
C10_StageOrder ==
    /\ \A i, j \in 1..Len(trace) : i < j => Rank(trace[i]) < Rank(trace[j])
    /\ pc # "collect" => trace[1] = "collect"
    /\ InTrace("A") => InTrace("prompt")
    /\ InTrace("B") => (InTrace("A") /\ retA = Some(None))
    /\ pc = "inA" => (~InTrace("B") /\ retA = None /\ retB = None)
    /\ pc = "inB" => (retA # None /\ retB = None)
    /\ requests.A <= 1 /\ requests.B <= 1
    /\ Len(written) <= 1
    /\ pc = "write" => (result # None /\ written = <<>>)
    /\ InTrace("write") => (result # None /\ written = <<result[1]>>)
    /\ pc = "done" =>
          trace \in {<<"collect", "write">>,
                     <<"collect", "prompt", "A", "write">>,
                     <<"collect", "prompt", "A", "B", "write">>}

\* a run in which both providers were asked ended with the write
C10_Witness ==
    /\ pc = "done"
    /\ trace = <<"collect", "prompt", "A", "B", "write">>
    /\ requests = [A |-> 1, B |-> 1]

=============================================================================
